---- MODULE Spec2Model ----
(***************************************************************************)
(* Model of normalization.py (ASP-Graph): the expression tree, nnf, the    *)
(* worklist normalizer (normalize / apply_substitution / L1..L7, R1..R7),  *)
(* the post-filters (tautology, subsumed), the rule-string emitter of      *)
(* normalization(), and pnf / prenex for first-order formulas.             *)
(*                                                                         *)
(* A Node is a record [val, l, r]; a missing child (Python None) is the    *)
(* record None.  nnf and prenex are modelled on the values of the trees:   *)
(* the trees they build do not share a node with themselves, and on the    *)
(* inputs considered here no node shared between two partial rules is      *)
(* written to (nnf writes to a node it did not allocate only when it is    *)
(* called on it directly, which L7/R7 never do: they wrap the subformula   *)
(* in a fresh Not node first).                                             *)
(***************************************************************************)
EXTENDS Integers, Sequences, FiniteSets, TLC

VARIABLES
    pc,            \* the step the program is at
    node,          \* the input formula tree
    res,           \* nnf(node), or pnf(node) once pnf has returned
    res2,          \* nnf(res)
    fprev, fnext,  \* pnf's locals
    st, sn,        \* normalize's lists: finished rules, rules to normalize
    normlist, no_taut_list, no_subs_list, solution,  \* normalization's locals
    string,        \* the tokens of the string given to Formula
    raised,        \* the exception Formula raised, "None" if none
    heap,          \* the Node objects: address -> [val, l, r], 0 for None
    arg, ret,      \* the address passed to nnf / pnf, the address returned
    rule, outcome   \* the partial rule given to a substitution rule, what it returned

vars == <<pc, node, res, res2, fprev, fnext, st, sn,
          normlist, no_taut_list, no_subs_list, solution,
          string, raised, heap, arg, ret, rule, outcome>>

\* the variables of the parser and of the object heap
other_vars == <<string, raised, heap, arg, ret, rule, outcome>>

----------------------------------------------------------------------------
(* class OP, class LIT *)

NOT == "-"
IMPLIES == ">"
AND == "&"
OR == "|"
EXISTS == "/E"
FORALL == "/F"
TRUE_ == "/t"
FALSE_ == "/f"

----------------------------------------------------------------------------
(* class Node *)

None == [val |-> "None"]

Node(val, left, right) == [val |-> val, l |-> left, r |-> right]

Leaf(val) == Node(val, None, None)

is_quantifier(n) == (n.val = EXISTS) \/ (n.val = FORALL)

is_literal(n) ==
    ~ (n.val \in {NOT, IMPLIES, AND, OR, EXISTS, FORALL})

RECURSIVE get_string(_)
get_string(n) ==
    (IF n.l # None THEN get_string(n.l) ELSE "")
    \o n.val
    \o (IF n.r # None THEN get_string(n.r) ELSE "")

RECURSIVE repr(_)
repr(n) ==
    (IF n.l # None THEN repr(n.l) \o " " ELSE "")
    \o (IF n.r # None THEN repr(n.r) \o " " ELSE "")
    \o n.val

----------------------------------------------------------------------------
(* nnf *)

RECURSIVE nnf(_)
nnf(n) ==
    LET \* the "Recursive call" tail of nnf, lines 355-362
        tail(newnode) ==
            IF is_literal(newnode) THEN newnode
            ELSE IF newnode.val = NOT THEN nnf(newnode)
            ELSE Node(newnode.val, nnf(newnode.l), nnf(newnode.r))
        neg(x) == Node(NOT, None, x)
    IN
    IF n.val = NOT THEN
        IF is_literal(n.r) THEN
            IF n.r.val = TRUE_ THEN Leaf(FALSE_)
            ELSE IF n.r.val = FALSE_ THEN Leaf(TRUE_)
            ELSE n
        ELSE IF n.r.val = NOT THEN
            IF n.r.r.val = NOT THEN tail(n.r.r)
            ELSE Node(NOT, n.l, nnf(n.r))
        ELSE IF n.r.val = AND THEN
            tail(Node(OR, neg(n.r.l), neg(n.r.r)))
        ELSE IF n.r.val = OR THEN
            tail(Node(AND, neg(n.r.l), neg(n.r.r)))
        ELSE IF n.r.val = IMPLIES THEN
            tail(Node(AND, neg(neg(n.r.l)), neg(n.r.r)))
        ELSE n  \* Not over a quantifier: outside nnf's propositional domain
    ELSE tail(n)

----------------------------------------------------------------------------
(* class Formula: the postfix parser.  A formula string is modelled as the *)
(* sequence of its tokens (string.split(separator)).                       *)

\* stack.pop() on an empty list raises IndexError
build_tree_from(tokens, i, stack) ==
    LET RECURSIVE go(_, _)
        go(k, stk) ==
            IF k > Len(tokens) THEN
                IF Len(stk) = 0 THEN [ok |-> FALSE, error |-> "IndexError"]
                ELSE [ok |-> TRUE, root |-> stk[Len(stk)]]
            ELSE
                LET s == tokens[k]
                    n == Len(stk)
                IN
                IF s = NOT THEN
                    IF n < 1 THEN [ok |-> FALSE, error |-> "IndexError"]
                    ELSE go(k + 1, Append(SubSeq(stk, 1, n - 1),
                                          Node(s, None, stk[n])))
                ELSE IF s \in {IMPLIES, AND, OR} THEN
                    IF n < 2 THEN [ok |-> FALSE, error |-> "IndexError"]
                    ELSE go(k + 1, Append(SubSeq(stk, 1, n - 2),
                                          Node(s, stk[n - 1], stk[n])))
                ELSE IF s \in {EXISTS, FORALL} THEN
                    IF n < 2 THEN [ok |-> FALSE, error |-> "IndexError"]
                    ELSE IF ~ is_literal(stk[n - 1])
                        THEN [ok |-> FALSE, error |-> "MalformedFormulaError"]
                    ELSE go(k + 1, Append(SubSeq(stk, 1, n - 2),
                                          Node(s, stk[n - 1], stk[n])))
                ELSE go(k + 1, Append(stk, Leaf(s)))
    IN go(i, stack)

build_tree(tokens) == build_tree_from(tokens, 1, <<>>)

\* Formula(string).root for a well-formed string
Formula(tokens) == build_tree(tokens).root

----------------------------------------------------------------------------
(* Lists of nodes with set behaviour: union, difference *)

Contains(l, x) == \E i \in 1..Len(l) : l[i] = x

RECURSIVE union(_, _)
union(l, s) ==
    IF s = <<>> THEN l
    ELSE union(IF Contains(l, Head(s)) THEN l ELSE Append(l, Head(s)), Tail(s))

\* list.remove(x): removes the first element equal to x, ValueError if none
remove(l, x) ==
    IF ~ Contains(l, x) THEN l
    ELSE LET i == CHOOSE j \in 1..Len(l) :
                      l[j] = x /\ \A k \in 1..(j - 1) : l[k] # x
         IN SubSeq(l, 1, i - 1) \o SubSeq(l, i + 1, Len(l))

RECURSIVE difference(_, _)
difference(l, s) ==
    IF s = <<>> THEN l
    ELSE difference(remove(l, Head(s)), Tail(s))

----------------------------------------------------------------------------
(* Partial rules: the 4-tuple f of lists; f[0], f[1], f[2], f[3] in the   *)
(* source are f[1], f[2], f[3], f[4] here                                  *)

A_done(f) == f[1]
A_todo(f) == f[2]
C_done(f) == f[3]
C_todo(f) == f[4]

\* the index of the first element a rule's for loop returns on: the least i
\* with hits[i], 0 if there is none
First(hits) ==
    IF \E i \in DOMAIN hits : hits[i]
    THEN CHOOSE i \in DOMAIN hits : hits[i] /\ \A k \in 1..(i - 1) : ~ hits[k]
    ELSE 0

NotApplicable == [applicable |-> FALSE, result |-> <<>>]

Applied(result) == [applicable |-> TRUE, result |-> result]

ExtLiteral(a) == is_literal(a) \/ ((a.val = NOT) /\ is_literal(a.r))

L1(f) ==
    LET i == First([k \in DOMAIN f[2] |-> f[2][k].val = FALSE_])
    IN IF i = 0 THEN NotApplicable ELSE Applied(<<>>)

L2(f) ==
    LET i == First([k \in DOMAIN f[2] |-> f[2][k].val = TRUE_])
    IN IF i = 0 THEN NotApplicable
       ELSE LET a == f[2][i]
            IN Applied(<< <<f[1], difference(f[2], <<a>>), f[3], f[4]>> >>)

L3Loose(f) ==
    LET i == First([k \in DOMAIN f[2] |-> is_literal(f[2][k]) \/ (f[2][k].val = NOT)])
    IN IF i = 0 THEN NotApplicable
       ELSE LET a == f[2][i]
            IN Applied(<< <<union(f[1], <<a>>), difference(f[2], <<a>>),
                           f[3], f[4]>> >>)

L3(f) ==
    LET i == First([k \in DOMAIN f[2] |-> ExtLiteral(f[2][k])])
    IN IF i = 0 THEN NotApplicable
       ELSE LET a == f[2][i]
            IN Applied(<< <<union(f[1], <<a>>), difference(f[2], <<a>>),
                           f[3], f[4]>> >>)

\* an L4 that strips the double negation
L4Strip(f) ==
    LET i == First([k \in DOMAIN f[2] |-> (f[2][k].val = NOT) /\ (f[2][k].r.val = NOT)])
    IN IF i = 0 THEN NotApplicable
       ELSE LET a == f[2][i]
            IN Applied(<< <<f[1], difference(f[2], <<a>>), f[3],
                           union(f[4], <<a.r.r>>)>> >>)

L4(f) ==
    LET i == First([k \in DOMAIN f[2] |-> (f[2][k].val = NOT) /\ (f[2][k].r.val = NOT)])
    IN IF i = 0 THEN NotApplicable
       ELSE LET a == f[2][i]
            IN Applied(<< <<f[1], difference(f[2], <<a>>), f[3],
                           union(f[4], <<a.r>>)>> >>)

L5(f) ==
    LET i == First([k \in DOMAIN f[2] |-> f[2][k].val = AND])
    IN IF i = 0 THEN NotApplicable
       ELSE LET a == f[2][i]
            IN Applied(<< <<f[1], union(difference(f[2], <<a>>), <<a.l, a.r>>),
                           f[3], f[4]>> >>)

L6(f) ==
    LET i == First([k \in DOMAIN f[2] |-> f[2][k].val = OR])
    IN IF i = 0 THEN NotApplicable
       ELSE LET a == f[2][i]
                g == <<f[1], union(difference(f[2], <<a>>), <<a.l>>), f[3], f[4]>>
                h == <<f[1], union(difference(f[2], <<a>>), <<a.r>>), f[3], f[4]>>
            IN Applied(<<g, h>>)

L7(f) ==
    LET i == First([k \in DOMAIN f[2] |-> f[2][k].val = IMPLIES])
    IN IF i = 0 THEN NotApplicable
       ELSE LET a == f[2][i]
                x == nnf(Node(NOT, None, a.l))
                g == <<f[1], union(difference(f[2], <<a>>), <<x>>), f[3], f[4]>>
                h == <<f[1], union(difference(f[2], <<a>>), <<a.r>>), f[3], f[4]>>
                z == nnf(Node(NOT, None, a.r))
                i3 == <<f[1], difference(f[2], <<a>>), f[3],
                        union(f[4], <<a.l, z>>)>>
            IN Applied(<<g, h, i3>>)

R1(f) ==
    LET i == First([k \in DOMAIN f[4] |-> f[4][k].val = TRUE_])
    IN IF i = 0 THEN NotApplicable ELSE Applied(<<>>)

R2(f) ==
    LET i == First([k \in DOMAIN f[4] |-> f[4][k].val = FALSE_])
    IN IF i = 0 THEN NotApplicable
       ELSE LET b == f[4][i]
            IN Applied(<< <<f[1], f[2], f[3], difference(f[4], <<b>>)>> >>)

R3(f) ==
    LET i == First([k \in DOMAIN f[4] |-> ExtLiteral(f[4][k])])
    IN IF i = 0 THEN NotApplicable
       ELSE LET b == f[4][i]
            IN Applied(<< <<f[1], f[2], union(f[3], <<b>>),
                           difference(f[4], <<b>>)>> >>)

R4(f) ==
    LET i == First([k \in DOMAIN f[4] |-> (f[4][k].val = NOT) /\ (f[4][k].r.val = NOT)])
    IN IF i = 0 THEN NotApplicable
       ELSE LET b == f[4][i]
            IN Applied(<< <<f[1], union(f[2], <<b.r>>), f[3],
                           difference(f[4], <<b>>)>> >>)

R5(f) ==
    LET i == First([k \in DOMAIN f[4] |-> f[4][k].val = OR])
    IN IF i = 0 THEN NotApplicable
       ELSE LET b == f[4][i]
            IN Applied(<< <<f[1], f[2], f[3],
                           union(difference(f[4], <<b>>), <<b.l, b.r>>)>> >>)

R6(f) ==
    LET i == First([k \in DOMAIN f[4] |-> f[4][k].val = AND])
    IN IF i = 0 THEN NotApplicable
       ELSE LET b == f[4][i]
                g == <<f[1], f[2], f[3], union(difference(f[4], <<b>>), <<b.l>>)>>
                h == <<f[1], f[2], f[3], union(difference(f[4], <<b>>), <<b.r>>)>>
            IN Applied(<<g, h>>)

R7(f) ==
    LET i == First([k \in DOMAIN f[4] |-> f[4][k].val = IMPLIES])
    IN IF i = 0 THEN NotApplicable
       ELSE LET b == f[4][i]
                g == <<f[1], union(f[2], <<b.l>>), f[3],
                       union(difference(f[4], <<b>>), <<b.r>>)>>
                v == nnf(Node(NOT, None, b.r))
                w == nnf(Node(NOT, None, b.l))
                h == <<f[1], union(f[2], <<v>>), f[3],
                       union(difference(f[4], <<b>>), <<w>>)>>
            IN Applied(<<g, h>>)

R7_simp(f) ==
    LET i == First([k \in DOMAIN f[4] |-> f[4][k].val = IMPLIES])
    IN IF i = 0 THEN NotApplicable
       ELSE LET b == f[4][i]
                g == <<f[1], union(f[2], <<b.l>>), f[3],
                       union(difference(f[4], <<b>>), <<b.r>>)>>
                v == nnf(Node(NOT, None, b.r))
                w == nnf(Node(NOT, None, b.l))
                h == <<f[1], union(f[2], <<v>>), f[3],
                       union(difference(f[4], <<b>>), <<w>>)>>
            IN IF (Len(f[3]) = 0) /\ (Len(f[4]) = 1) THEN Applied(<<g>>)
               ELSE Applied(<<g, h>>)

\* the first applicable rule of the side wins; [] if none applies
apply_substitution(f, side) ==
    IF side = "left" THEN
        IF L1(f).applicable THEN L1(f).result
        ELSE IF L2(f).applicable THEN L2(f).result
        ELSE IF L3(f).applicable THEN L3(f).result
        ELSE IF L4(f).applicable THEN L4(f).result
        ELSE IF L5(f).applicable THEN L5(f).result
        ELSE IF L6(f).applicable THEN L6(f).result
        ELSE IF L7(f).applicable THEN L7(f).result
        ELSE <<>>
    ELSE
        IF R1(f).applicable THEN R1(f).result
        ELSE IF R2(f).applicable THEN R2(f).result
        ELSE IF R3(f).applicable THEN R3(f).result
        ELSE IF R4(f).applicable THEN R4(f).result
        ELSE IF R5(f).applicable THEN R5(f).result
        ELSE IF R6(f).applicable THEN R6(f).result
        ELSE IF R7_simp(f).applicable THEN R7_simp(f).result
        ELSE <<>>

----------------------------------------------------------------------------
(* Post-filters and the rule string *)

tautology(f) == \E i \in 1..Len(f[1]) : Contains(f[3], f[1][i])

subsumed(f, l) ==
    \E k \in 1..Len(l) :
        LET g == l[k]
        IN /\ \A i \in 1..Len(g[1]) : Contains(f[1], g[1][i])
           /\ \A i \in 1..Len(g[3]) : Contains(f[3], g[3][i])

RECURSIVE join(_, _)
join(sep, l) ==
    IF l = <<>> THEN ""
    ELSE IF Len(l) = 1 THEN l[1]
    ELSE l[1] \o sep \o join(sep, Tail(l))

get_strings(l) == [i \in 1..Len(l) |-> get_string(l[i])]

\* the string normalization() builds for the finished rule g
rule_string(g) ==
    join(" & ", get_strings(g[1])) \o " > " \o join(" | ", get_strings(g[3]))

----------------------------------------------------------------------------
(* Bounded input domains *)

MaxNnfSize == 5

Atoms == {"p", "q"}

PropLeaves == {Leaf(a) : a \in Atoms \cup {TRUE_, FALSE_}}

\* the propositional trees with exactly k nodes, for k in 1..n
PropBySize[k \in 1..8] ==
    IF k = 1 THEN PropLeaves
    ELSE {Node(NOT, None, x) : x \in PropBySize[k - 1]}
         \cup UNION {UNION {{Node(op, a, b) : a \in PropBySize[i], b \in PropBySize[k - 1 - i]}
                            : i \in 1..(k - 2)}
                     : op \in {AND, OR, IMPLIES}}

PropFormulas(n) == UNION {PropBySize[k] : k \in 1..n}

----------------------------------------------------------------------------
(* Specification of nnf applied once and then again to its own result *)

InitNnf ==
    /\ pc = "nnf"
    /\ node \in PropFormulas(MaxNnfSize)
    /\ res = None /\ res2 = None
    /\ fprev = "" /\ fnext = None
    /\ st = <<>> /\ sn = <<>>
    /\ normlist = <<>> /\ no_taut_list = <<>> /\ no_subs_list = <<>>
    /\ solution = {}
    /\ string = <<>> /\ raised = "None"
    /\ heap = <<>> /\ arg = 0 /\ ret = 0
    /\ rule = <<>> /\ outcome = NotApplicable

NnfCall ==
    /\ pc = "nnf"
    /\ res' = nnf(node)
    /\ pc' = "nnf_once"
    /\ UNCHANGED other_vars
    /\ UNCHANGED <<node, res2, fprev, fnext, st, sn,
                   normlist, no_taut_list, no_subs_list, solution>>

NnfAgain ==
    /\ pc = "nnf_once"
    /\ res2' = nnf(res)
    /\ pc' = "nnf_twice"
    /\ UNCHANGED other_vars
    /\ UNCHANGED <<node, res, fprev, fnext, st, sn,
                   normlist, no_taut_list, no_subs_list, solution>>

NextNnf == NnfCall \/ NnfAgain

SpecNnf == InitNnf /\ [][NextNnf]_vars

----------------------------------------------------------------------------
(* normalize and normalization *)

\* normalize_step that keeps a finished rule only if no rule finished
\* before it subsumes it
normalize_step_incremental(st_, sn_, i) ==
    LET f == sn_[i]
        rest == SubSeq(sn_, 1, i - 1) \o SubSeq(sn_, i + 1, Len(sn_))
        newformulas ==
            IF Len(f[4]) # 0 THEN apply_substitution(f, "right")
            ELSE IF Len(f[2]) # 0 THEN apply_substitution(f, "left")
            ELSE <<f>>
    IN IF newformulas = <<f>>
       THEN [st |-> IF subsumed(f, st_) THEN st_ ELSE st_ \o newformulas,
             sn |-> rest]
       ELSE [st |-> st_, sn |-> rest \o newformulas]

\* a pass that puts every result back on the worklist, finished rules included
normalize_step_requeue(st_, sn_, i) ==
    LET f == sn_[i]
        rest == SubSeq(sn_, 1, i - 1) \o SubSeq(sn_, i + 1, Len(sn_))
        newformulas ==
            IF Len(f[4]) # 0 THEN apply_substitution(f, "right")
            ELSE IF Len(f[2]) # 0 THEN apply_substitution(f, "left")
            ELSE <<f>>
    IN [st |-> st_, sn |-> rest \o newformulas]

\* one pass of normalize's while loop that takes sn[i] out of the list
\* (the source pops the last element, i = Len(sn))
normalize_step(st_, sn_, i) ==
    LET f == sn_[i]
        rest == SubSeq(sn_, 1, i - 1) \o SubSeq(sn_, i + 1, Len(sn_))
        newformulas ==
            IF Len(f[4]) # 0 THEN apply_substitution(f, "right")
            ELSE IF Len(f[2]) # 0 THEN apply_substitution(f, "left")
            ELSE <<f>>
    IN IF newformulas = <<f>>
       THEN [st |-> st_ \o newformulas, sn |-> rest]
       ELSE [st |-> st_, sn |-> rest \o newformulas]

RECURSIVE normalize(_, _)
normalize(st_, sn_) ==
    IF Len(sn_) = 0 THEN st_
    ELSE LET s == normalize_step(st_, sn_, Len(sn_))
         IN normalize(s.st, s.sn)

seed(n) ==
    IF n.val = IMPLIES THEN << <<>>, <<n.l>>, <<>>, <<n.r>> >>
    ELSE << <<>>, <<>>, <<>>, <<n>> >>

no_taut(l) == SelectSeq(l, LAMBDA g : ~ tautology(g))

no_subs(l, all) == SelectSeq(l, LAMBDA g : ~ subsumed(g, difference(all, <<g>>)))

\* the list normalization() renders into strings
emitted(l) == l

strings_of(l) == {rule_string(l[i]) : i \in 1..Len(l)}

\* normalization(node) as a whole, worklist in the source's (LIFO) order
normalization(n) == strings_of(emitted(normalize(<<>>, <<seed(n)>>)))

----------------------------------------------------------------------------
(* Inputs of the normalizer: NormTest.setUpClass, and every small formula  *)

MaxNormSize == 5

l2l4l5 == Formula(<<"/t", "q", "-", "-", "&", "p", ">">>)
l7 == Formula(<<"q", "-", "-", "p", ">", "r", ">">>)
r2r4r5 == Formula(<<"q", "p", "-", "-", "/f", "|", ">">>)
r7 == Formula(<<"r", "q", "p", ">", ">">>)
l7r7 == Formula(<<"q", "p", ">", "s", "r", ">", ">">>)
l7l6 == Formula(<<"p", "q", ">", "r", "s", ">", "|", "t", ">">>)
r7r6 == Formula(<<"t", "p", "q", ">", "r", "s", ">", "&", ">">>)
l6r6 == Formula(<<"q", "p", "|", "s", "r", "&", ">">>)
l1r1 == Formula(<<"/t", "p", "&", "q", "/f", "|", ">">>)
simple == Formula(<<"q", "p", "|">>)
example == Formula(<<"p", "-", "q", ">", "p", "r", ">", "-", ">">>)

TestFormulas ==
    {l2l4l5, l7, r2r4r5, r7, l7r7, l7l6, r7r6, l6r6, l1r1, simple, example}

NormInputs == PropFormulas(MaxNormSize) \cup TestFormulas

----------------------------------------------------------------------------
(* Specification of the pipeline nnf -> normalization                      *)

Init ==
    /\ pc = "nnf"
    /\ node \in NormInputs
    /\ res = None /\ res2 = None
    /\ fprev = "" /\ fnext = None
    /\ st = <<>> /\ sn = <<>>
    /\ normlist = <<>> /\ no_taut_list = <<>> /\ no_subs_list = <<>>
    /\ solution = {}
    /\ string = <<>> /\ raised = "None"
    /\ heap = <<>> /\ arg = 0 /\ ret = 0
    /\ rule = <<>> /\ outcome = NotApplicable

\* normalization(), lines 413-419: the seed and the call of normalize
Seed ==
    /\ pc = "nnf_once"
    /\ st' = <<>>
    /\ sn' = <<seed(res)>>
    /\ pc' = "normalize"
    /\ UNCHANGED other_vars
    /\ UNCHANGED <<node, res, res2, fprev, fnext,
                   normlist, no_taut_list, no_subs_list, solution>>

\* one pass of normalize's loop on the rule at index i
Loop(i) ==
    /\ st' = normalize_step(st, sn, i).st
    /\ sn' = normalize_step(st, sn, i).sn
    /\ UNCHANGED other_vars
    /\ UNCHANGED <<pc, node, res, res2, fprev, fnext,
                   normlist, no_taut_list, no_subs_list, solution>>

NormalizeLoop ==
    /\ pc = "normalize"
    /\ Len(sn) # 0
    /\ Loop(Len(sn))

\* the same pass, on any rule of the list
NormalizeLoopAnyOrder ==
    /\ pc = "normalize"
    /\ Len(sn) # 0
    /\ \E i \in 1..Len(sn) : Loop(i)

NormalizeReturn ==
    /\ pc = "normalize"
    /\ Len(sn) = 0
    /\ normlist' = st
    /\ pc' = "filter"
    /\ UNCHANGED other_vars
    /\ UNCHANGED <<node, res, res2, fprev, fnext, st, sn,
                   no_taut_list, no_subs_list, solution>>

\* normalization(), lines 420-431: the filters and the rule strings
Emit ==
    /\ pc = "filter"
    /\ no_taut_list' = no_taut(normlist)
    /\ no_subs_list' = no_subs(no_taut(normlist), normlist)
    /\ solution' = strings_of(emitted(normlist))
    /\ pc' = "done"
    /\ UNCHANGED other_vars
    /\ UNCHANGED <<node, res, res2, fprev, fnext, st, sn, normlist>>

Next == NnfCall \/ Seed \/ NormalizeLoop \/ NormalizeReturn \/ Emit

Spec == Init /\ [][Next]_vars

NextAnyOrder ==
    NnfCall \/ Seed \/ NormalizeLoopAnyOrder \/ NormalizeReturn \/ Emit

SpecAnyOrder == Init /\ [][NextAnyOrder]_vars

----------------------------------------------------------------------------
(* prenex and pnf *)

\* Rules 0.0 and 0.1 with the universal case left out
prenex_not_exists_only(n) ==
    IF n.r.val = EXISTS
        THEN Node(FORALL, n.r.l, Node(NOT, None, n.r.r))
    ELSE n

\* Rules 0.0 and 0.1: a negated quantifier
prenex_not(n) ==
    IF n.r.val = EXISTS
        THEN Node(FORALL, n.r.l, Node(NOT, None, n.r.r))
    ELSE IF n.r.val = FORALL
        THEN Node(EXISTS, n.r.l, Node(NOT, None, n.r.r))
    ELSE n

\* Rules 1 and 2: a quantifier below And / Or
prenex_and_or(n) ==
    LET has_entered_left == is_quantifier(n.l)
    IN IF is_quantifier(n.r) THEN
           IF has_entered_left
               THEN Node(n.r.val, n.r.l,
                         Node(n.l.val, n.l.l, Node(n.val, n.l.r, n.r.r)))
           ELSE Node(n.r.val, n.r.l, Node(n.val, n.l, n.r.r))
       ELSE IF has_entered_left
           THEN Node(n.l.val, n.l.l, Node(n.val, n.l.r, n.r))
       ELSE n

\* Rules 4.0, 4.1 and 3: a quantifier below Implies
prenex_implies(n) ==
    LET has_entered_left == (n.l.val = EXISTS) \/ (n.l.val = FORALL)
    IN IF is_quantifier(n.r) THEN
           IF has_entered_left
               THEN Node(n.r.val, n.r.l,
                         Node(n.l.val, n.l.l, Node(IMPLIES, n.l.r, n.r.r)))
           ELSE Node(n.r.val, n.r.l, Node(IMPLIES, n.l, n.r.r))
       ELSE IF n.l.val = EXISTS
           THEN Node(FORALL, n.l.l, Node(IMPLIES, n.l.r, n.r))
       ELSE IF n.l.val = FORALL
           THEN Node(EXISTS, n.l.l, Node(IMPLIES, n.l.r, n.r))
       ELSE n

RECURSIVE prenex(_)
prenex(n) ==
    LET n1 == IF is_literal(n) THEN n
              ELSE IF n.val = NOT THEN Node(n.val, n.l, prenex(n.r))
              ELSE Node(n.val, prenex(n.l), prenex(n.r))
    IN IF n1.val = NOT THEN prenex_not(n1)
       ELSE IF (n1.val = AND) \/ (n1.val = OR) THEN prenex_and_or(n1)
       ELSE IF n1.val = IMPLIES THEN prenex_implies(n1)
       ELSE n1

----------------------------------------------------------------------------
(* First-order inputs *)

MaxPnfSize == 5

FOAtoms == {"p(x)", "q(y)"}

Variables == {"x", "y"}

\* the variable that occurs in an atom of FOAtoms
AtomVars(a) ==
    IF a = "p(x)" THEN {"x"} ELSE IF a = "q(y)" THEN {"y"} ELSE {}

\* the first-order trees with exactly k nodes (a bound variable not counted)
FOBySize[k \in 1..8] ==
    IF k = 1 THEN {Leaf(a) : a \in FOAtoms}
    ELSE {Node(NOT, None, x) : x \in FOBySize[k - 1]}
         \cup {Node(Q, Leaf(v), x) :
                  Q \in {EXISTS, FORALL}, v \in Variables, x \in FOBySize[k - 1]}
         \cup UNION {UNION {{Node(op, a, b) : a \in FOBySize[i], b \in FOBySize[k - 1 - i]}
                            : i \in 1..(k - 2)}
                     : op \in {AND, OR, IMPLIES}}

FOFormulas(n) == UNION {FOBySize[k] : k \in 1..n}

----------------------------------------------------------------------------
(* Specification of pnf *)

InitPnf ==
    /\ pc = "pnf"
    /\ node \in FOFormulas(MaxPnfSize)
    /\ res = None /\ res2 = None
    /\ fprev = "" /\ fnext = None
    /\ st = <<>> /\ sn = <<>>
    /\ normlist = <<>> /\ no_taut_list = <<>> /\ no_subs_list = <<>>
    /\ solution = {}
    /\ string = <<>> /\ raised = "None"
    /\ heap = <<>> /\ arg = 0 /\ ret = 0
    /\ rule = <<>> /\ outcome = NotApplicable

\* pnf, lines 186-188
PnfFirst ==
    /\ pc = "pnf"
    /\ LET first == prenex(node)
       IN /\ fprev' = repr(first)
          /\ fnext' = prenex(first)
    /\ pc' = "pnf_loop"
    /\ UNCHANGED other_vars
    /\ UNCHANGED <<node, res, res2, st, sn,
                   normlist, no_taut_list, no_subs_list, solution>>

\* pnf, lines 189-191
PnfLoop ==
    /\ pc = "pnf_loop"
    /\ fprev # repr(fnext)
    /\ fprev' = repr(fnext)
    /\ fnext' = prenex(fnext)
    /\ UNCHANGED other_vars
    /\ UNCHANGED <<pc, node, res, res2, st, sn,
                   normlist, no_taut_list, no_subs_list, solution>>

\* pnf, line 192
PnfReturn ==
    /\ pc = "pnf_loop"
    /\ fprev = repr(fnext)
    /\ res' = fnext
    /\ pc' = "pnf_done"
    /\ UNCHANGED other_vars
    /\ UNCHANGED <<node, res2, fprev, fnext, st, sn,
                   normlist, no_taut_list, no_subs_list, solution>>

NextPnf == PnfFirst \/ PnfLoop \/ PnfReturn

SpecPnf == InitPnf /\ [][NextPnf]_vars

----------------------------------------------------------------------------
(* Sub-tree predicates used to state the shape of a tree *)

RECURSIVE Subtrees(_)
Subtrees(n) ==
    IF n = None THEN {}
    ELSE {n} \cup Subtrees(n.l) \cup Subtrees(n.r)

Quantifiers(n) == {m \in Subtrees(n) : is_quantifier(m)}

\* the names of the literals of a tree, and the constants nnf may introduce
LiteralNames(n) ==
    {m.val : m \in {k \in Subtrees(n) : is_literal(k)}} \cup {TRUE_, FALSE_}

Finished == {normlist[i] : i \in 1..Len(normlist)}

Elems(l) == {l[i] : i \in 1..Len(l)}

----------------------------------------------------------------------------
(* Claims about normalization's result *)

\* C1: every rule in the set returned by normalization is tautology-free: no
\* finished rule with a literal on both sides has its string in the result.
C1_TautologyFree ==
    pc = "done" =>
        \A g \in Finished : rule_string(g) \in solution => ~ tautology(g)

\* C2: the set returned by normalization is subsumption-minimal: no returned
\* rule f has a different returned rule g with g.A_done a subset of f.A_done
\* and g.C_done a subset of f.C_done.
C2_SubsumptionMinimal ==
    pc = "done" =>
        \A f \in Finished : \A g \in Finished :
            (/\ rule_string(f) \in solution
             /\ rule_string(g) \in solution
             /\ rule_string(g) # rule_string(f))
            => ~ subsumed(f, <<g>>)

\* C3: an implication between literals in the consequent yields both R7
\* branches: r -> (q -> p) gives exactly {"r & q > p", "r & -p > -q"}, and
\* each conjunct x -> y produced by R6 gives 'A & x > y' and 'A & -y > -x'.
C3_R7BothBranches ==
    pc = "done" =>
        /\ node = r7 => solution = {"r & q > p", "r & -p > -q"}
        /\ node = r7r6 => solution = {"t & p > q", "t & -q > -p",
                                      "t & r > s", "t & -s > -r"}

\* C6: in every partial rule of the worklist and every finished rule, A_done
\* holds only literals and Not(literal), C_done only literals, Not(literal)
\* and Not(Not(literal)); so every token of an emitted rule string is x, -x
\* or --x, and --x never occurs on the left of " > ".
C6_DoneShape ==
    /\ \A f \in Elems(sn) \cup Elems(st) \cup Finished :
        /\ \A a \in Elems(f[1]) : ExtLiteral(a)
        /\ \A b \in Elems(f[3]) :
              \/ ExtLiteral(b)
              \/ (b.val = NOT /\ b.r.val = NOT /\ is_literal(b.r.r))
    /\ pc = "done" =>
        \A g \in Finished :
            /\ rule_string(g) \in solution
            /\ \A a \in Elems(g[1]) : \E x \in LiteralNames(node) :
                  get_string(a) \in {x, "-" \o x}
            /\ \A b \in Elems(g[3]) : \E x \in LiteralNames(node) :
                  get_string(b) \in {x, "-" \o x, "--" \o x}

\* a finished rule with a negated literal on each side, from an input with a
\* double negation (moved across by L4 / R4)
C6_Witness ==
    /\ pc = "done"
    /\ \E m \in Subtrees(res) : m.val = NOT /\ m.r.val = NOT
    /\ \E g \in Finished :
        /\ \E a \in Elems(g[1]) : a.val = NOT
        /\ \E b \in Elems(g[3]) : b.val = NOT

\* C10: the set of rule strings does not depend on the order in which the
\* partial rules are taken from the worklist: taken in any order, the result
\* is the one of the source's order.
C10_OrderIndependent ==
    pc = "done" => solution = normalization(res)

\* a run that finished three or more rules in another order than the source's
C10_Witness ==
    /\ pc = "done"
    /\ Len(normlist) >= 3
    /\ normlist # normalize(<<>>, <<seed(res)>>)
    /\ solution = normalization(res)

----------------------------------------------------------------------------
(* Claims about nnf *)

\* C4: NNF shape: in nnf(phi) every Not wraps a literal or Not(literal), and
\* no Implies occurs below a Not.
C4_NnfShape ==
    pc = "nnf_once" =>
        \A m \in Subtrees(res) :
            m.val = NOT =>
                /\ \/ is_literal(m.r)
                   \/ (m.r.val = NOT /\ is_literal(m.r.r))
                /\ \A k \in Subtrees(m.r) : k.val # IMPLIES

\* C5: NNF idempotence: nnf(nnf(phi)) is structurally equal to nnf(phi).
C5_NnfIdempotent ==
    pc = "nnf_twice" => res2 = res

----------------------------------------------------------------------------
(* Claims about pnf *)

RECURSIVE FreeVars(_)
FreeVars(n) ==
    IF n = None THEN {}
    ELSE IF is_quantifier(n) THEN FreeVars(n.r) \ {n.l.val}
    ELSE IF is_literal(n) THEN AtomVars(n.val)
    ELSE FreeVars(n.l) \cup FreeVars(n.r)

\* the kinds of the quantifiers of n that bind variable v
BinderKinds(n, v) == {m.val : m \in {k \in Quantifiers(n) : k.l.val = v}}

Dual(Q) == IF Q = EXISTS THEN FORALL ELSE EXISTS

\* C7: pnf's result is a fixed point of prenex, and in it no quantifier
\* occurs below a Not, And, Or or Implies node.
C7_PnfShape ==
    pc = "pnf_done" =>
        /\ prenex(res) = res
        /\ \A m \in Subtrees(res) :
              ~ is_quantifier(m) =>
                  Quantifiers(m.l) \cup Quantifiers(m.r) = {}

\* a result with two or more quantifiers in its prefix, from an input whose
\* root is no quantifier, that took more than prenex's first two passes
C7_Witness ==
    /\ pc = "pnf_done"
    /\ ~ is_quantifier(node)
    /\ is_quantifier(res) /\ is_quantifier(res.r)
    /\ prenex(prenex(node)) # res

\* C8: a quantifier pulled out of the antecedent of an implication is
\* dualized, whatever the consequent: for (Q x. phi) -> psi, with x bound
\* nowhere else, x is bound by the dual of Q in pnf's result, also when psi
\* starts with a quantifier itself.
C8_AntecedentDualized ==
    (/\ pc = "pnf_done"
     /\ node.val = IMPLIES
     /\ is_quantifier(node.l)
     /\ BinderKinds(node.l.r, node.l.l.val) = {}
     /\ BinderKinds(node.r, node.l.l.val) = {})
    => BinderKinds(res, node.l.l.val) = {Dual(node.l.val)}

\* C9: pnf never captures a variable: a variable that is free in the input
\* is free in pnf's result.
C9_NoCapture ==
    pc = "pnf_done" => FreeVars(node) \subseteq FreeVars(res)

----------------------------------------------------------------------------
(* Specification of the parser: Formula(string)                            *)

MaxTokens == 4

Tokens == {"p", "x", NOT, AND, IMPLIES, EXISTS}

\* the string of PrenexTest.test_malformed_formula
malformed == <<"p", "x", "y", "&", "s(x)", "r(x)", "&", "/F", "&">>

TokenStrings ==
    UNION {[1..n -> Tokens] : n \in 1..MaxTokens} \cup {malformed}

InitParse ==
    /\ pc = "parse"
    /\ string \in TokenStrings
    /\ raised = "None"
    /\ node = None /\ res = None /\ res2 = None
    /\ fprev = "" /\ fnext = None
    /\ st = <<>> /\ sn = <<>>
    /\ normlist = <<>> /\ no_taut_list = <<>> /\ no_subs_list = <<>>
    /\ solution = {}
    /\ heap = <<>> /\ arg = 0 /\ ret = 0
    /\ rule = <<>> /\ outcome = NotApplicable

\* Formula.__init__: self.root = self.build_tree(string), or the exception
Parse ==
    /\ pc = "parse"
    /\ LET r == build_tree(string)
       IN IF r.ok THEN node' = r.root /\ raised' = "None"
          ELSE node' = node /\ raised' = r.error
    /\ pc' = "parsed"
    /\ UNCHANGED <<string, heap, arg, ret, rule, outcome>>
    /\ UNCHANGED <<res, res2, fprev, fnext, st, sn,
                   normlist, no_taut_list, no_subs_list, solution>>

NextParse == Parse

SpecParse == InitParse /\ [][NextParse]_vars

----------------------------------------------------------------------------
(* Claims about the parser *)

\* what is wrong with a postfix token string, "ok" if nothing: stk holds,
\* for each operand on the stack, whether it is a single literal
RECURSIVE Shape(_, _, _)
Shape(tokens, k, stk) ==
    IF k > Len(tokens) THEN
        IF Len(stk) = 1 THEN "ok"
        ELSE IF Len(stk) = 0 THEN "too few operands" ELSE "operands left over"
    ELSE LET s == tokens[k]
             n == Len(stk)
         IN IF s = NOT THEN
                IF n < 1 THEN "too few operands"
                ELSE Shape(tokens, k + 1, Append(SubSeq(stk, 1, n - 1), FALSE))
            ELSE IF s \in {AND, OR, IMPLIES} THEN
                IF n < 2 THEN "too few operands"
                ELSE Shape(tokens, k + 1, Append(SubSeq(stk, 1, n - 2), FALSE))
            ELSE IF s \in {EXISTS, FORALL} THEN
                IF n < 2 THEN "too few operands"
                ELSE IF ~ stk[n - 1] THEN "variable slot not a literal"
                ELSE Shape(tokens, k + 1, Append(SubSeq(stk, 1, n - 2), FALSE))
            ELSE Shape(tokens, k + 1, Append(stk, TRUE))

\* C11: the parser rejects every malformed token string with
\* MalformedFormulaError, and no other exception, and returns no tree: too
\* few operands for an operator, operands left over after the last token,
\* and a quantifier whose bound-variable slot is not a literal.
C11_ParserRejectsMalformed ==
    (pc = "parsed" /\ Shape(string, 1, <<>>) # "ok")
    => (raised = "MalformedFormulaError" /\ node = None)

----------------------------------------------------------------------------
(* nnf, prenex and pnf on the Node objects themselves: the heap maps an    *)
(* address to the object's fields, child fields hold addresses, 0 is None. *)
(* An operator returns the heap after the call and the address returned.   *)

\* Node(val, left, right): a new object
Alloc(h, val, left, right) ==
    [h |-> Append(h, [val |-> val, l |-> left, r |-> right]), a |-> Len(h) + 1]

\* the objects build_tree creates for a tree, operands before their operator
RECURSIVE Load(_, _)
Load(h, n) ==
    IF n = None THEN [h |-> h, a |-> 0]
    ELSE LET x == Load(h, n.l)
             y == Load(x.h, n.r)
         IN Alloc(y.h, n.val, x.a, y.a)

\* the tree that is rooted at address a
RECURSIVE Value(_, _)
Value(h, a) ==
    IF a = 0 THEN None
    ELSE Node(h[a].val, Value(h, h[a].l), Value(h, h[a].r))

RECURSIVE nnf_heap(_, _)
nnf_heap(h, a) ==
    LET n == h[a]
        \* the "Recursive call" tail, lines 355-362
        tail(h1, newnode) ==
            IF is_literal(h1[newnode]) THEN [h |-> h1, a |-> newnode]
            ELSE IF h1[newnode].val = NOT THEN nnf_heap(h1, newnode)
            ELSE LET x == nnf_heap(h1, h1[newnode].l)
                     h2 == [x.h EXCEPT ![newnode].l = x.a]
                     y == nnf_heap(h2, h2[newnode].r)
                     h3 == [y.h EXCEPT ![newnode].r = y.a]
                 IN [h |-> h3, a |-> newnode]
        \* newnode = Node(op); newnode.l = Node(NOT); newnode.l.r = x;
        \* newnode.r = Node(NOT); newnode.r.r = y
        negated(op, x, y) ==
            LET top == Alloc(h, op, 0, 0)
                lft == Alloc(top.h, NOT, 0, x)
                rgt == Alloc(lft.h, NOT, 0, y)
            IN [h |-> [rgt.h EXCEPT ![top.a].l = lft.a, ![top.a].r = rgt.a],
                a |-> top.a]
    IN
    IF n.val = NOT THEN
        IF is_literal(h[n.r]) THEN
            IF h[n.r].val = TRUE_ THEN Alloc(h, FALSE_, 0, 0)
            ELSE IF h[n.r].val = FALSE_ THEN Alloc(h, TRUE_, 0, 0)
            ELSE [h |-> h, a |-> a]
        ELSE IF h[n.r].val = NOT THEN
            IF h[h[n.r].r].val = NOT THEN tail(h, h[n.r].r)
            ELSE LET x == nnf_heap(h, n.r)
                 IN [h |-> [x.h EXCEPT ![a].r = x.a], a |-> a]
        ELSE IF h[n.r].val = AND THEN
            LET m == negated(OR, h[n.r].l, h[n.r].r) IN tail(m.h, m.a)
        ELSE IF h[n.r].val = OR THEN
            LET m == negated(AND, h[n.r].l, h[n.r].r) IN tail(m.h, m.a)
        ELSE IF h[n.r].val = IMPLIES THEN
            LET top == Alloc(h, AND, 0, 0)
                lft == Alloc(top.h, NOT, 0, 0)
                inn == Alloc(lft.h, NOT, 0, h[n.r].l)
                rgt == Alloc(inn.h, NOT, 0, h[n.r].r)
                h1 == [rgt.h EXCEPT ![top.a].l = lft.a, ![lft.a].r = inn.a,
                                    ![top.a].r = rgt.a]
            IN tail(h1, top.a)
        ELSE [h |-> h, a |-> a]  \* Not over a quantifier: outside nnf's domain
    ELSE tail(h, a)

RECURSIVE prenex_heap(_, _)
prenex_heap(h0, a) ==
    LET \* the recursive call, lines 196-201
        rec ==
            IF is_literal(h0[a]) THEN h0
            ELSE IF h0[a].val = NOT THEN
                LET x == prenex_heap(h0, h0[a].r)
                IN [x.h EXCEPT ![a].r = x.a]
            ELSE LET x == prenex_heap(h0, h0[a].l)
                     h2 == [x.h EXCEPT ![a].l = x.a]
                     y == prenex_heap(h2, h2[a].r)
                 IN [y.h EXCEPT ![a].r = y.a]
        h == rec
        n == h[a]
        nl == h[n.l]
        nr == h[n.r]
        same == [h |-> h, a |-> a]
        \* Node(outer, left=var, right=Node(inner, left=x, right=y))
        pulled(h1, outer, var, inner, x, y) ==
            LET top == Alloc(h1, outer, var, 0)
                low == Alloc(top.h, inner, x, y)
            IN [h |-> [low.h EXCEPT ![top.a].r = low.a], a |-> top.a]
    IN
    IF n.val = NOT THEN
        IF nr.val = EXISTS THEN pulled(h, FORALL, nr.l, NOT, 0, nr.r)
        ELSE IF nr.val = FORALL THEN pulled(h, EXISTS, nr.l, NOT, 0, nr.r)
        ELSE same
    ELSE IF (n.val = AND) \/ (n.val = OR) \/ (n.val = IMPLIES) THEN
        LET has_entered_left ==
                IF n.val = IMPLIES THEN (nl.val = EXISTS) \/ (nl.val = FORALL)
                ELSE is_quantifier(nl)
            dual == IF nl.val = EXISTS THEN FORALL ELSE EXISTS
        IN IF is_quantifier(nr) THEN
               IF has_entered_left THEN
                   \* Node(node.r.val, left=node.r.l, right=Node(node.l.val));
                   \* .r.l = node.l.l; .r.r = Node(node.val, node.l.r, node.r.r)
                   LET low == Alloc(h, n.val, nl.r, nr.r)
                   IN pulled(low.h, nr.val, nr.l, nl.val, nl.l, low.a)
               ELSE pulled(h, nr.val, nr.l, n.val, n.l, nr.r)
           ELSE IF has_entered_left THEN
               pulled(h, IF n.val = IMPLIES THEN dual ELSE nl.val,
                      nl.l, n.val, nl.r, n.r)
           ELSE same
    ELSE same

\* pnf's loop, lines 189-192
RECURSIVE pnf_loop_heap(_, _, _)
pnf_loop_heap(h, prev, next) ==
    IF prev # repr(Value(h, next)) THEN
        LET x == prenex_heap(h, next)
        IN pnf_loop_heap(x.h, repr(Value(h, next)), x.a)
    ELSE [h |-> h, a |-> next]

pnf_heap(h, a) ==
    LET first == prenex_heap(h, a)
        second == prenex_heap(first.h, first.a)
    IN pnf_loop_heap(second.h, repr(Value(first.h, first.a)), second.a)

----------------------------------------------------------------------------
(* Specification of nnf and pnf called on the root object of a parsed tree *)

MaxHeapSize == 4

InitHeap ==
    /\ pc = "call"
    /\ node \in PropFormulas(MaxHeapSize) \cup FOFormulas(MaxHeapSize)
    /\ heap = Load(<<>>, node).h
    /\ arg = Load(<<>>, node).a
    /\ ret = 0
    /\ res = None /\ res2 = None
    /\ fprev = "" /\ fnext = None
    /\ st = <<>> /\ sn = <<>>
    /\ normlist = <<>> /\ no_taut_list = <<>> /\ no_subs_list = <<>>
    /\ solution = {}
    /\ string = <<>> /\ raised = "None"
    /\ rule = <<>> /\ outcome = NotApplicable

\* nnf(node) on a propositional tree
CallNnf ==
    /\ pc = "call"
    /\ \A m \in DOMAIN heap : ~ is_quantifier(heap[m])
    /\ heap' = nnf_heap(heap, arg).h
    /\ ret' = nnf_heap(heap, arg).a
    /\ pc' = "nnf_returned"
    /\ UNCHANGED <<string, raised, arg, rule, outcome>>
    /\ UNCHANGED <<node, res, res2, fprev, fnext, st, sn,
                   normlist, no_taut_list, no_subs_list, solution>>

\* pnf(node)
CallPnf ==
    /\ pc = "call"
    /\ heap' = pnf_heap(heap, arg).h
    /\ ret' = pnf_heap(heap, arg).a
    /\ pc' = "pnf_returned"
    /\ UNCHANGED <<string, raised, arg, rule, outcome>>
    /\ UNCHANGED <<node, res, res2, fprev, fnext, st, sn,
                   normlist, no_taut_list, no_subs_list, solution>>

NextHeap == CallNnf \/ CallPnf

SpecHeap == InitHeap /\ [][NextHeap]_vars

----------------------------------------------------------------------------
(* Claims about the argument of nnf and pnf *)

\* C12: nnf and pnf treat their argument as an immutable value: after the
\* call returns, the tree rooted at the argument node is structurally what
\* it was before the call.
C12_ArgumentUnchanged ==
    pc \in {"nnf_returned", "pnf_returned"} => Value(heap, arg) = node

----------------------------------------------------------------------------
(* Claims about partial rules that leave the worklist *)

\* the side normalize processes for f, lines 460-463
SideOf(f) == IF Len(f[4]) # 0 THEN "right" ELSE "left"

\* the rule apply_substitution picks for f on that side, "none" if no rule
\* of the side is applicable
ChosenRule(f) ==
    IF SideOf(f) = "right" THEN
        IF R1(f).applicable THEN "R1" ELSE IF R2(f).applicable THEN "R2"
        ELSE IF R3(f).applicable THEN "R3" ELSE IF R4(f).applicable THEN "R4"
        ELSE IF R5(f).applicable THEN "R5" ELSE IF R6(f).applicable THEN "R6"
        ELSE IF R7_simp(f).applicable THEN "R7" ELSE "none"
    ELSE
        IF L1(f).applicable THEN "L1" ELSE IF L2(f).applicable THEN "L2"
        ELSE IF L3(f).applicable THEN "L3" ELSE IF L4(f).applicable THEN "L4"
        ELSE IF L5(f).applicable THEN "L5" ELSE IF L6(f).applicable THEN "L6"
        ELSE IF L7(f).applicable THEN "L7" ELSE "none"

Pending(f) == Len(f[2]) # 0 \/ Len(f[4]) # 0

\* C13: a partial rule taken from Work that still has pending subformulas
\* and to which no rule of its side applies is moved to Done; a partial rule
\* leaves Work without reaching Done and without replacements only through
\* L1 or R1.
C13_StuckRuleIsFinished ==
    [][(pc = "normalize" /\ Len(sn) # 0) =>
         LET f == sn[Len(sn)]
         IN /\ (Pending(f) /\ ChosenRule(f) = "none") => st' = st \o <<f>>
            /\ (st' = st /\ Len(sn') = Len(sn) - 1)
                  => ChosenRule(f) \in {"L1", "R1"}]_vars

----------------------------------------------------------------------------
(* Termination of normalize *)

MaxTermSize == 4

TermInputs == PropFormulas(MaxTermSize) \cup TestFormulas

InitTerm ==
    /\ pc = "nnf"
    /\ node \in TermInputs
    /\ res = None /\ res2 = None
    /\ fprev = "" /\ fnext = None
    /\ st = <<>> /\ sn = <<>>
    /\ normlist = <<>> /\ no_taut_list = <<>> /\ no_subs_list = <<>>
    /\ solution = {}
    /\ string = <<>> /\ raised = "None"
    /\ heap = <<>> /\ arg = 0 /\ ret = 0
    /\ rule = <<>> /\ outcome = NotApplicable

\* the program runs on as long as it has a statement to execute
SpecFair == InitTerm /\ [][Next]_vars /\ WF_vars(Next)

----------------------------------------------------------------------------
(* Specification of L4 and R4 applied to a partial rule *)

MaxTodo == 2

\* formulas a pending list may hold: literals and negations of negations
TodoFormulas ==
    {Leaf("p"), Node(NOT, None, Leaf("q")),
     Node(NOT, None, Node(NOT, None, Leaf("p"))),
     Node(NOT, None, Node(NOT, None, Leaf("q"))),
     Node(NOT, None, Node(NOT, None, Node(NOT, None, Leaf("p"))))}

\* the lists behave like sets: no element twice
TodoLists ==
    {l \in UNION {[1..n -> TodoFormulas] : n \in 0..MaxTodo} :
        \A i, j \in DOMAIN l : l[i] = l[j] => i = j}

DoneLists == {<<>>, <<Leaf("p")>>, <<Node(NOT, None, Leaf("q"))>>}

InitRule ==
    /\ pc = "rule"
    /\ rule \in DoneLists \X TodoLists \X DoneLists \X TodoLists
    /\ outcome = NotApplicable
    /\ node = None /\ res = None /\ res2 = None
    /\ fprev = "" /\ fnext = None
    /\ st = <<>> /\ sn = <<>>
    /\ normlist = <<>> /\ no_taut_list = <<>> /\ no_subs_list = <<>>
    /\ solution = {}
    /\ string = <<>> /\ raised = "None"
    /\ heap = <<>> /\ arg = 0 /\ ret = 0

CallL4 ==
    /\ pc = "rule"
    /\ outcome' = L4(rule)
    /\ pc' = "L4"
    /\ UNCHANGED <<string, raised, heap, arg, ret, rule>>
    /\ UNCHANGED <<node, res, res2, fprev, fnext, st, sn,
                   normlist, no_taut_list, no_subs_list, solution>>

CallR4 ==
    /\ pc = "rule"
    /\ outcome' = R4(rule)
    /\ pc' = "R4"
    /\ UNCHANGED <<string, raised, heap, arg, ret, rule>>
    /\ UNCHANGED <<node, res, res2, fprev, fnext, st, sn,
                   normlist, no_taut_list, no_subs_list, solution>>

NextRule == CallL4 \/ CallR4

SpecRule == InitRule /\ [][NextRule]_vars

----------------------------------------------------------------------------
(* Claims about L4 and R4 *)

DoubleNeg(a) == a.val = NOT /\ a.r.val = NOT

\* the rule returned exactly one partial rule: `from' lost a, `to' gained
\* moved, the two finished lists are as they were
Moves(from, to, a, moved) ==
    /\ outcome.applicable
    /\ Len(outcome.result) = 1
    /\ LET g == outcome.result[1]
       IN /\ g[1] = rule[1]
          /\ g[3] = rule[3]
          /\ Elems(g[from]) = Elems(rule[from]) \ {a}
          /\ Elems(g[to]) = Elems(rule[to]) \cup {moved}

\* C15 as stated: L4 on a partial rule whose A_todo contains Not(Not(x))
\* yields exactly one partial rule with that element removed from A_todo
\* and x added to C_todo, A_done and C_done unchanged; R4 is the mirror
\* image.
C15_MovesInner ==
    /\ (pc = "L4" /\ \E a \in Elems(rule[2]) : DoubleNeg(a))
          => \E a \in Elems(rule[2]) : DoubleNeg(a) /\ Moves(2, 4, a, a.r.r)
    /\ (pc = "R4" /\ \E b \in Elems(rule[4]) : DoubleNeg(b))
          => \E b \in Elems(rule[4]) : DoubleNeg(b) /\ Moves(4, 2, b, b.r.r)

\* C15 amended: L4 on a partial rule whose A_todo contains Not(Not(x))
\* yields exactly one partial rule with that element removed from A_todo
\* and Not(x), its child, added to C_todo, A_done and C_done unchanged; R4
\* is the mirror image (Not(Not(x)) removed from C_todo, Not(x) added to
\* A_todo).
C15_MovesNegation ==
    /\ (pc = "L4" /\ \E a \in Elems(rule[2]) : DoubleNeg(a))
          => \E a \in Elems(rule[2]) : DoubleNeg(a) /\ Moves(2, 4, a, a.r)
    /\ (pc = "R4" /\ \E b \in Elems(rule[4]) : DoubleNeg(b))
          => \E b \in Elems(rule[4]) : DoubleNeg(b) /\ Moves(4, 2, b, b.r)

\* L4 has returned for a rule with Not(Not(p)) pending on the left, other
\* formulas pending on both sides and finished literals on both sides
C15_Witness ==
    /\ pc = "L4"
    /\ outcome.applicable
    /\ rule[1] # <<>> /\ rule[3] # <<>>
    /\ Len(rule[2]) = 2 /\ Len(rule[4]) = 2
    /\ Contains(rule[2], Node(NOT, None, Node(NOT, None, Leaf("p"))))
    /\ ~ Contains(rule[4], Node(NOT, None, Leaf("p")))

====
